---- MODULE Spec2Model ----
(***************************************************************************)
(* The useRequest composable of src/src/composables/useRequest.ts: one     *)
(* instance, its reactive cells, the execute calls made on it, the promise *)
(* chain (.then / .catch / .finally) of every transport call, and the      *)
(* thenable built on waitUntilFinished.                                    *)
(*                                                                         *)
(* Every handler of the promise chain is one action: the JavaScript event  *)
(* loop runs each of them to completion, and other jobs (further execute   *)
(* calls, other calls' handlers) may run between two of them.              *)
(***************************************************************************)
EXTENDS Integers, Sequences, FiniteSets, TLC

(***************************************************************************)
(* Bounds of the model.                                                    *)
(***************************************************************************)
\* execute calls made by the caller on the instance (the automatic first
\* call of the construction included)
MaxExecutes == 2
\* then()/catch() subscriptions made on the thenable
MaxWaiters == 1

(***************************************************************************)
(* Values.                                                                 *)
(***************************************************************************)
\* JavaScript's undefined: an unset cell, an absent argument or field
Undef == "undefined"

\* a value JavaScript takes as true in a condition: neither undefined nor ""
Truthy(v) == v # Undef /\ v # ""

\* error.value = "ERR_INVALID_URL"
ERR_INVALID_URL == "ERR_INVALID_URL"

\* title: "网络错误" (network error), the fixed title of the catch handler
NetworkErrorTitle == "title:network-error"

\* || "请求错误" (request error), the fallback of the non-2xx branch
RequestErrorFallback == "title:request-error"

\* a RequestConfig: the two fields the model follows, Undef when absent
Config(u, m) == [url |-> u, method |-> m]

\* config: RequestConfig = {}  and  let defaultConfig: RequestConfig = {}
EmptyConfig == Config(Undef, Undef)

\* the configs a caller passes to useRequest
DefaultConfigs == {EmptyConfig, Config(Undef, "GET"), Config("/d", "GET")}

\* the configs a caller passes to execute
CallConfigs == {EmptyConfig, Config("/c", "POST")}

\* the options a caller passes to useRequest; an absent callback is FALSE,
\* an absent immediate or resetOnExecute is FALSE (undefined is falsy)
Options(im, init, reset, cbs) ==
    [immediate |-> im, initialData |-> init, resetOnExecute |-> reset,
     onSuccess |-> cbs, onError |-> cbs, onFinish |-> cbs]

\* let options = { immediate: !!argsPlaceholder, shallow: true }
InitialOptions(argsPlaceholder) ==
    [immediate |-> (argsPlaceholder # 0), initialData |-> Undef,
     resetOnExecute |-> FALSE,
     onSuccess |-> FALSE, onError |-> FALSE, onFinish |-> FALSE]

\* one argument of useRequest(...args)
StringArg(s) == [t |-> "string", s |-> s, c |-> EmptyConfig, o |-> InitialOptions(0)]
ConfigArg(c) == [t |-> "config", s |-> Undef, c |-> c, o |-> InitialOptions(0)]
OptionsArg(o) == [t |-> "options", s |-> Undef, c |-> EmptyConfig, o |-> o]

\* the argument lists of the two overloads of useRequest
ArgsSet ==
    {<<>>,
     <<ConfigArg(Config(Undef, "GET"))>>,
     <<ConfigArg(EmptyConfig), OptionsArg(Options(FALSE, Undef, FALSE, TRUE))>>,
     <<ConfigArg(Config("/d", "GET")), OptionsArg(Options(TRUE, "D0", TRUE, TRUE))>>,
     <<StringArg("/a")>>,
     <<StringArg("")>>,
     <<StringArg("/a"), ConfigArg(Config(Undef, "GET"))>>,
     <<StringArg("/a"), ConfigArg(EmptyConfig),
       OptionsArg(Options(FALSE, Undef, FALSE, TRUE))>>,
     <<StringArg("/a"), ConfigArg(Config("/d", "GET")),
       OptionsArg(Options(TRUE, "D0", TRUE, TRUE))>>}

\* the envelope { code, msg, data } of a response
Envelope(m, d) == [code |-> "0", msg |-> m, data |-> d]

\* a UniApp.RequestSuccessCallbackResult
Result(s, m, d) == [statusCode |-> s, data |-> Envelope(m, d)]

\* the responses the transport resolves with
Responses ==
    {Result(200, "ok", "D1"), Result(299, "", "D2"), Result(300, "M", "D2"),
     Result(401, "M", "D1"), Result(500, "", "D2")}

\* shallowRef<UniApp.RequestSuccessCallbackResult>() before any response
NoResponse == [statusCode |-> 0, data |-> [code |-> Undef, msg |-> Undef, data |-> Undef]]

\* the values the transport rejects with
Rejections == {"E1"}

\* the value a throwing user callback throws
Thrown == "X"

\* the first argument of execute: absent, a string, or a config object
NoArg == [kind |-> "undefined", str |-> Undef, cfg |-> EmptyConfig]
StrArg(s) == [kind |-> "string", str |-> s, cfg |-> EmptyConfig]
ObjArg(c) == [kind |-> "object", str |-> Undef, cfg |-> c]
ExecuteUrls == {NoArg, StrArg("/x")} \cup {ObjArg(c) : c \in CallConfigs}

Calls == 1..MaxExecutes
Waiters == 1..MaxWaiters

(***************************************************************************)
(* The state of one instance.                                              *)
(***************************************************************************)
VARIABLES
    url,             \* const url: the address bound at construction, or Undef
    defaultConfig,   \* let defaultConfig
    options,         \* let options
    response,        \* const response = shallowRef()
    data,            \* const data = shallowRef(initialData)
    isFinished,      \* const isFinished = ref(false)
    isLoading,       \* const isLoading = ref(false)
    error,           \* const error = shallowRef()
    executeCounter,  \* let executeCounter = 0
    calls,           \* the promise chain of the transport call of each generation
    waiters,         \* the promises made by waitUntilFinished()
    executeCalls,    \* how many times execute has been called
    last,            \* the handler that ran last, with its inputs
    effects,         \* the calls the handler that ran last made to its collaborators
    intercept        \* a call of a platform API and what the interceptor made of it

cells == <<response, data, isFinished, isLoading, error, executeCounter>>
vars == <<url, defaultConfig, options, response, data, isFinished, isLoading,
          error, executeCounter, calls, waiters, executeCalls, last, effects,
          intercept>>

(***************************************************************************)
(* useRequest(...args): the construction.                                  *)
(***************************************************************************)
\* const url = typeof args[0] === "string" ? args[0] : undefined
BoundUrl(args) ==
    IF Len(args) > 0 /\ args[1].t = "string" THEN args[1].s ELSE Undef

\* const argsPlaceholder = typeof url === "string" ? 1 : 0
ArgsPlaceholder(args) == IF BoundUrl(args) # Undef THEN 1 ELSE 0

\* if (args.length > 0 + argsPlaceholder) defaultConfig = args[0 + argsPlaceholder]
BoundConfig(args) ==
    IF Len(args) > 0 + ArgsPlaceholder(args)
    THEN args[1 + ArgsPlaceholder(args)].c
    ELSE EmptyConfig

\* if (args.length === 2 + argsPlaceholder || args.length === 3 + argsPlaceholder)
\*   options = args[args.length - 1]
BoundOptions(args) ==
    IF \/ Len(args) = 2 + ArgsPlaceholder(args)
       \/ Len(args) = 3 + ArgsPlaceholder(args)
    THEN args[Len(args)].o
    ELSE InitialOptions(ArgsPlaceholder(args))

(***************************************************************************)
(* The helpers of the instance.                                            *)
(***************************************************************************)
\* a loading() that forgets the negation
LoadingBoth(loading) == [isLoading |-> loading, isFinished |-> loading]

\* const loading = (loading) => { isLoading.value = loading; isFinished.value = !loading }
Loading(loading) == [isLoading |-> loading, isFinished |-> ~loading]

\* a resetData that never resets
ResetDataNever(opts, d) == d

\* const resetData = () => { if (resetOnExecute) data.value = initialData }
ResetData(opts, d) == IF opts.resetOnExecute THEN opts.initialData ELSE d

\* executeUrl: string | RequestConfig | undefined = url  (the default parameter)
ExecuteUrlOrDefault(bUrl, executeUrl) ==
    IF executeUrl.kind = "undefined" /\ bUrl # Undef THEN StrArg(bUrl) ELSE executeUrl

\* a resolution that reads the config before the bound address
ResolveUrlConfigFirst(bUrl, executeUrl, config) ==
    IF ExecuteUrlOrDefault(bUrl, executeUrl).kind = "string"
    THEN ExecuteUrlOrDefault(bUrl, executeUrl).str
    ELSE IF config.url # Undef THEN config.url ELSE bUrl

\* const _url = typeof executeUrl === "string" ? executeUrl : url ?? config.url
ResolveUrl(bUrl, executeUrl, config) ==
    IF ExecuteUrlOrDefault(bUrl, executeUrl).kind = "string"
    THEN ExecuteUrlOrDefault(bUrl, executeUrl).str
    ELSE IF bUrl # Undef THEN bUrl ELSE config.url

\* { url: _url, ...defaultConfig }: a field of defaultConfig overwrites the one before it
Descriptor(_url, defCfg) ==
    [url |-> IF defCfg.url # Undef THEN defCfg.url ELSE _url,
     method |-> defCfg.method]

NoDescriptor == [url |-> Undef, method |-> Undef]

\* a call that keeps the generation of the call before it
SameGeneration(counter) == counter

\* executeCounter += 1
NextGeneration(counter) == counter + 1

\* a completion that does not compare the generations
IsCurrentAlways(currentExecuteCounter, counter) == TRUE

\* if (currentExecuteCounter === executeCounter)
IsCurrent(currentExecuteCounter, counter) == currentExecuteCounter = counter

\* a success range that leaves 200 out
IsSuccessAbove200(statusCode) == statusCode > 200 /\ statusCode < 300

\* res.statusCode >= 200 && res.statusCode < 300
IsSuccess(statusCode) == statusCode >= 200 /\ statusCode < 300

\* a no-op branch taken for another status
IsForbidden(statusCode) == statusCode = 403

\* else if (res.statusCode === 401)
IsUnauthorized(statusCode) == statusCode = 401

\* a title without the fallback
ErrorTitleNoFallback(msg) == msg

\* (res.data as Response<T>).msg || "请求错误"
ErrorTitle(msg) == IF msg = "" THEN RequestErrorFallback ELSE msg


(***************************************************************************)
(* What the handler that ran last did: its kind, the call it belongs to,   *)
(* its inputs, and whether it invoked the transport (with which request).  *)
(***************************************************************************)
Step(kind, call) ==
    [kind |-> kind, call |-> call, executeUrl |-> NoArg, config |-> EmptyConfig,
     resolved |-> Undef, invoked |-> FALSE, desc |-> NoDescriptor,
     res |-> NoResponse, e |-> Undef, waiter |-> 0]

\* a call made to a collaborator: uni.showToast, onSuccess, onError, onFinish
Event(t, arg) == [t |-> t, arg |-> arg]

\* the promise chain of a generation that has not been started
IdleCall ==
    [pc |-> "idle", preData |-> Undef, preError |-> Undef, statusCode |-> 0,
     threw |-> FALSE, nSuccess |-> 0, nError |-> 0, nFinish |-> 0]

\* a promise of waitUntilFinished() that has not been made
NoWaiter == [st |-> "none", val |-> Undef]

\* an invalid-address branch that also turns isLoading off
InvalidUrlOutcomeStopsLoading(st) ==
    [data |-> st.data,
     error |-> ERR_INVALID_URL,
     isLoading |-> FALSE,
     isFinished |-> TRUE,
     executeCounter |-> st.executeCounter,
     resolved |-> Undef,
     invoked |-> FALSE,
     desc |-> NoDescriptor]

\* if (_url === undefined) { error.value = "ERR_INVALID_URL"; isFinished.value = true;
\*   return promise }
InvalidUrlOutcome(st) ==
    [data |-> st.data,
     error |-> ERR_INVALID_URL,
     isLoading |-> st.isLoading,
     isFinished |-> TRUE,
     executeCounter |-> st.executeCounter,
     resolved |-> Undef,
     invoked |-> FALSE,
     desc |-> NoDescriptor]

(***************************************************************************)
(* execute(executeUrl = url, config = {}), up to the transport call.       *)
(* st holds the cells before the call; the result holds the cells after    *)
(* it, whether the transport was invoked, and the request it was given.    *)
(***************************************************************************)
ExecuteOutcome(st, bUrl, defCfg, opts, executeUrl, config) ==
    IF ResolveUrl(bUrl, executeUrl, config) = Undef
    THEN InvalidUrlOutcome(st)
    ELSE [data |-> ResetData(opts, st.data),
          error |-> Undef,
          isLoading |-> Loading(TRUE).isLoading,
          isFinished |-> Loading(TRUE).isFinished,
          executeCounter |-> NextGeneration(st.executeCounter),
          resolved |-> ResolveUrl(bUrl, executeUrl, config),
          invoked |-> TRUE,
          desc |-> Descriptor(ResolveUrl(bUrl, executeUrl, config), defCfg)]

\* the cells right after their declarations
FreshCells(opts) ==
    [data |-> opts.initialData, error |-> Undef, isLoading |-> FALSE,
     isFinished |-> FALSE, executeCounter |-> 0]

\* if (immediate && url) execute()
Constructed(args) ==
    IF BoundOptions(args).immediate /\ Truthy(BoundUrl(args))
    THEN ExecuteOutcome(FreshCells(BoundOptions(args)), BoundUrl(args),
                        BoundConfig(args), BoundOptions(args), NoArg, EmptyConfig)
    ELSE FreshCells(BoundOptions(args))
         @@ [resolved |-> Undef, invoked |-> FALSE, desc |-> NoDescriptor]

\* the chain of a transport call that has just been made
PendingCall(d, e) == [IdleCall EXCEPT !.pc = "pending", !.preData = d, !.preError = e]

(***************************************************************************)
(* until(isFinished).toBe(true): a waiter that finds isFinished true is    *)
(* woken at once, the others when isFinished becomes true.                 *)
(***************************************************************************)
Until(finished) == IF finished THEN "woken" ELSE "waiting"

Wake(ws, finished) ==
    [w \in Waiters |->
        IF ws[w].st = "waiting" /\ finished THEN [ws[w] EXCEPT !.st = "woken"] ELSE ws[w]]

\* () => (error.value ? reject(error.value) : resolve(result))
Settlement(err) ==
    IF Truthy(err) THEN [st |-> "rejected", val |-> err]
    ELSE [st |-> "resolved", val |-> "result"]

(***************************************************************************)
(* httpInterceptor: lines 10-30. A url is the sequence of its characters;  *)
(* a header object is a function from the names it holds to their values;  *)
(* an option that may be absent is a sequence of at most one value.        *)
(***************************************************************************)
\* const baseURL = import.meta.env.VITE_BASE_URL
BaseURL == <<"h", "t", "t", "p", "s", ":", "/", "/", "b">>

\* "http"
Http == <<"h", "t", "t", "p">>

\* options.timeout = 10000
InterceptorTimeout == 10000

\* const token = ""
Token == ""

\* String.prototype.startsWith
StartsWith(str, prefix) ==
    Len(str) >= Len(prefix) /\ SubSeq(str, 1, Len(prefix)) = prefix

\* a header object that drops what the caller set
HeaderOfClientOnly(header, token) == [n \in {"source-client"} |-> "miniprogram"]

\* options.header = { ...options.header, "source-client": "miniprogram" }
\* if (token) options.header.Authorization = token
InterceptedHeader(header, token) ==
    [n \in DOMAIN header \cup {"source-client"}
           \cup (IF Truthy(token) THEN {"Authorization"} ELSE {}) |->
        IF n = "Authorization" /\ Truthy(token) THEN token
        ELSE IF n = "source-client" THEN "miniprogram"
        ELSE header[n]]

\* httpInterceptor.invoke(options)
HttpInterceptorInvoke(o) ==
    [url |-> IF ~StartsWith(o.url, Http) THEN BaseURL \o o.url ELSE o.url,
     timeout |-> <<InterceptorTimeout>>,
     header |-> InterceptedHeader(o.header, Token)]

\* uni.addInterceptor("request", ...); uni.addInterceptor("uploadFile", ...)
Intercepted == {"request", "uploadFile"}

\* the platform APIs a page calls
Apis == Intercepted \cup {"downloadFile"}

\* the urls, timeouts and headers a caller passes
CallerUrls ==
    {<<>>, <<"/", "a">>, <<"h", "t", "t">>, <<"h", "t", "t", "p">>,
     <<"h", "t", "t", "p", ":", "/", "/", "x">>,
     <<"h", "t", "t", "p", "s", ":", "/", "/", "x">>,
     <<"H", "T", "T", "P", ":", "/", "/", "x">>,
     <<"/", "h", "t", "t", "p">>}

CallerTimeouts == {<<>>, <<5000>>, <<InterceptorTimeout>>}

CallerHeaderValue ==
    [n \in {"X-Trace", "source-client", "Authorization"} |->
        IF n = "X-Trace" THEN "1" ELSE IF n = "source-client" THEN "web" ELSE "caller-token"]

CallerHeaders == {[n \in S |-> CallerHeaderValue[n]] : S \in SUBSET DOMAIN CallerHeaderValue}

RequestOptions ==
    {[url |-> u, timeout |-> t, header |-> h] :
        u \in CallerUrls, t \in CallerTimeouts, h \in CallerHeaders}

\* no platform API is being called
NoIntercept ==
    [phase |-> "idle", api |-> "none",
     options |-> [url |-> <<>>, timeout |-> <<>>, header |-> [n \in {} |-> ""]],
     sent |-> [url |-> <<>>, timeout |-> <<>>, header |-> [n \in {} |-> ""]]]

\* The platform runs the interceptors registered for the API on the options
\* of the call and sends what they leave.
CallApi ==
    /\ intercept.phase = "called"
    /\ intercept' = [intercept EXCEPT
                        !.phase = "sent",
                        !.sent = IF intercept.api \in Intercepted
                                 THEN HttpInterceptorInvoke(intercept.options)
                                 ELSE intercept.options]
    /\ UNCHANGED <<url, defaultConfig, options, cells, calls, waiters, executeCalls,
                   last, effects>>

\* the instance that useRequest(...args) returns
Instance(args) ==
    /\ url = BoundUrl(args)
    /\ defaultConfig = BoundConfig(args)
    /\ options = BoundOptions(args)
    /\ response = NoResponse
    /\ data = Constructed(args).data
    /\ isFinished = Constructed(args).isFinished
    /\ isLoading = Constructed(args).isLoading
    /\ error = Constructed(args).error
    /\ executeCounter = Constructed(args).executeCounter
    /\ calls = [i \in Calls |->
                   IF i <= Constructed(args).executeCounter
                   THEN PendingCall(BoundOptions(args).initialData, Undef)
                   ELSE IdleCall]
    /\ waiters = [w \in Waiters |-> NoWaiter]
    /\ executeCalls = Constructed(args).executeCounter
    /\ last = [Step("construct", Constructed(args).executeCounter) EXCEPT
                  !.resolved = Constructed(args).resolved,
                  !.invoked = Constructed(args).invoked,
                  !.desc = Constructed(args).desc]
    /\ effects = <<>>

Init ==
    \E args \in ArgsSet :
        /\ Instance(args)
        /\ intercept = NoIntercept

(***************************************************************************)
(* execute: lines 177-197 and 228.                                         *)
(***************************************************************************)
Execute(executeUrl, config) ==
    LET out == ExecuteOutcome(
                   [data |-> data, error |-> error, isLoading |-> isLoading,
                    isFinished |-> isFinished, executeCounter |-> executeCounter],
                   url, defaultConfig, options, executeUrl, config)
    IN /\ executeCalls < MaxExecutes
       /\ executeCalls' = executeCalls + 1
       /\ data' = out.data
       /\ error' = out.error
       /\ isLoading' = out.isLoading
       /\ isFinished' = out.isFinished
       /\ executeCounter' = out.executeCounter
       /\ calls' = IF out.invoked
                   THEN [calls EXCEPT ![out.executeCounter] = PendingCall(data, error)]
                   ELSE calls
       /\ waiters' = Wake(waiters, out.isFinished)
       /\ last' = [Step("execute", IF out.invoked THEN out.executeCounter ELSE 0) EXCEPT
                      !.executeUrl = executeUrl, !.config = config,
                      !.resolved = out.resolved,
                      !.invoked = out.invoked, !.desc = out.desc]
       /\ effects' = <<>>
       /\ UNCHANGED <<url, defaultConfig, options, response, intercept>>


(***************************************************************************)
(* The promise chain of a transport call: lines 198-226.                   *)
(***************************************************************************)
\* a callback?.(arg) that never calls
InvokeNever(present, t, arg) == <<>>

\* callback?.(arg): the call, when the caller supplied the callback
Invoke(present, t, arg) == IF present THEN <<Event(t, arg)>> ELSE <<>>

\* how many calls of kind t the handler made
Count(evs, t) == Cardinality({k \in DOMAIN evs : evs[k].t = t})

\* .then((res) => { ... }): the cells it leaves and the calls it makes
ThenOutcome(opts, st, res) ==
    IF IsSuccess(res.statusCode)
    THEN [response |-> res,
          data |-> res.data.data,
          effects |-> Invoke(opts.onSuccess, "onSuccess", res.data.data)]
    ELSE IF IsUnauthorized(res.statusCode)
    THEN [response |-> st.response, data |-> st.data, effects |-> <<>>]
    ELSE [response |-> st.response,
          data |-> st.data,
          effects |-> <<Event("toast", ErrorTitle(res.data.msg))>>
                      \o Invoke(opts.onError, "onError", ErrorTitle(res.data.msg))]

\* a .catch handler that notifies and calls nothing back
CatchEffectsToastOnly(opts, e) == <<Event("toast", NetworkErrorTitle)>>

\* .catch((e) => { ... }): the calls it makes (it stores e in error)
CatchEffects(opts, e) ==
    <<Event("toast", NetworkErrorTitle)>> \o Invoke(opts.onError, "onError", e)

\* a .finally handler that calls onFinish and leaves the flags alone
FinallyOutcomeKeepsFlags(opts, st, currentExecuteCounter, counter) ==
    [isLoading |-> st.isLoading, isFinished |-> st.isFinished,
     effects |-> IF currentExecuteCounter = counter
                 THEN Invoke(opts.onFinish, "onFinish", Undef) ELSE <<>>]

\* .finally(() => { ... }): the flags it leaves and the calls it makes
FinallyOutcome(opts, st, currentExecuteCounter, counter) ==
    IF IsCurrent(currentExecuteCounter, counter)
    THEN [isLoading |-> Loading(FALSE).isLoading,
          isFinished |-> Loading(FALSE).isFinished,
          effects |-> Invoke(opts.onFinish, "onFinish", Undef)]
    ELSE [isLoading |-> st.isLoading, isFinished |-> st.isFinished, effects |-> <<>>]

\* the chain of call i after a handler that made the calls evs and went to pc
Advance(c, pc, evs) ==
    [c EXCEPT !.pc = pc,
              !.nSuccess = @ + Count(evs, "onSuccess"),
              !.nError = @ + Count(evs, "onError"),
              !.nFinish = @ + Count(evs, "onFinish")]

\* The transport resolves with res and the .then handler runs. A callback
\* the handler calls may throw (throws): the chain is then rejected with
\* the thrown value and the .catch handler runs next.
TransportResolve(i, res, throws) ==
    LET out == ThenOutcome(options, [response |-> response, data |-> data], res)
    IN /\ calls[i].pc = "pending"
       /\ throws => (Count(out.effects, "onSuccess") + Count(out.effects, "onError") > 0)
       /\ response' = out.response
       /\ data' = out.data
       /\ effects' = out.effects
       /\ calls' = [calls EXCEPT
                       ![i] = [Advance(@, IF throws THEN "thrown" ELSE "handled", out.effects)
                                  EXCEPT !.statusCode = res.statusCode, !.threw = throws]]
       /\ last' = [Step("then", i) EXCEPT !.res = res]
       /\ UNCHANGED <<url, defaultConfig, options, isFinished, isLoading, error,
                      executeCounter, waiters, executeCalls, intercept>>

\* the .catch handler with the value e the chain was rejected with
Catch(i, e, kind) ==
    /\ error' = e
    /\ effects' = CatchEffects(options, e)
    /\ calls' = [calls EXCEPT ![i] = Advance(@, "handled", CatchEffects(options, e))]
    /\ last' = [Step(kind, i) EXCEPT !.e = e]
    /\ UNCHANGED <<url, defaultConfig, options, response, data, isFinished, isLoading,
                   executeCounter, waiters, executeCalls, intercept>>

\* The transport rejects with e and the .catch handler runs. (An onError
\* that throws here rejects only the promise .finally returns, which nobody
\* holds: the .finally handler runs all the same.)
TransportReject(i, e) ==
    /\ calls[i].pc = "pending"
    /\ Catch(i, e, "catch")

\* the .catch handler runs on the value a callback of the .then handler threw
CatchThrown(i) ==
    /\ calls[i].pc = "thrown"
    /\ Catch(i, Thrown, "catch-thrown")

\* the .finally handler of call i, whose currentExecuteCounter is i
Finally(i) ==
    LET out == FinallyOutcome(options, [isLoading |-> isLoading, isFinished |-> isFinished],
                              i, executeCounter)
    IN /\ calls[i].pc = "handled"
       /\ isLoading' = out.isLoading
       /\ isFinished' = out.isFinished
       /\ effects' = out.effects
       /\ calls' = [calls EXCEPT ![i] = Advance(@, "done", out.effects)]
       /\ waiters' = Wake(waiters, out.isFinished)
       /\ last' = Step("finally", i)
       /\ UNCHANGED <<url, defaultConfig, options, response, data, error,
                      executeCounter, executeCalls, intercept>>

(***************************************************************************)
(* The thenable: lines 162-173.                                            *)
(***************************************************************************)
\* promise.then(...) or promise.catch(...): waitUntilFinished() makes promise w
Subscribe(w) ==
    /\ waiters[w].st = "none"
    /\ \A v \in Waiters : v < w => waiters[v].st # "none"
    /\ waiters' = [waiters EXCEPT ![w].st = Until(isFinished)]
    /\ last' = [Step("subscribe", 0) EXCEPT !.waiter = w]
    /\ effects' = <<>>
    /\ UNCHANGED <<url, defaultConfig, options, cells, calls, executeCalls, intercept>>

\* the continuation of until(isFinished).toBe(true) runs and settles promise w
Settle(w) ==
    /\ waiters[w].st = "woken"
    /\ waiters' = [waiters EXCEPT ![w] = Settlement(error)]
    /\ last' = [Step("settle", 0) EXCEPT !.waiter = w]
    /\ effects' = <<>>
    /\ UNCHANGED <<url, defaultConfig, options, cells, calls, executeCalls, intercept>>

Next ==
    \/ \E executeUrl \in ExecuteUrls, config \in CallConfigs : Execute(executeUrl, config)
    \/ \E i \in Calls, res \in Responses, throws \in BOOLEAN : TransportResolve(i, res, throws)
    \/ \E i \in Calls, e \in Rejections : TransportReject(i, e)
    \/ \E i \in Calls : CatchThrown(i)
    \/ \E i \in Calls : Finally(i)

\* the instance and the callers that read its cells
Spec == Init /\ [][Next]_vars

\* the instance and the callers that also await the thenable
ThenableNext ==
    \/ Next
    \/ \E w \in Waiters : Subscribe(w)
    \/ \E w \in Waiters : Settle(w)

ThenableSpec == Init /\ [][ThenableNext]_vars

\* The instance when every transport call settles and every handler of a
\* settled promise runs: the transport resolves or rejects each call it was
\* given, and the job queue runs the .catch and .finally handlers.
Fairness ==
    \A i \in Calls :
        /\ WF_vars(\/ \E res \in Responses, throws \in BOOLEAN : TransportResolve(i, res, throws)
                   \/ \E e \in Rejections : TransportReject(i, e))
        /\ WF_vars(CatchThrown(i))
        /\ WF_vars(Finally(i))

FairSpec == Init /\ [][Next]_vars /\ Fairness

\* a page calls a platform API with some options, beside an idle instance
InterceptorInit ==
    /\ Instance(<<>>)
    /\ \E api \in Apis, o \in RequestOptions :
           intercept = [phase |-> "called", api |-> api, options |-> o, sent |-> o]

InterceptorNext == CallApi

InterceptorSpec == InterceptorInit /\ [][InterceptorNext]_vars


(***************************************************************************)
(* Properties.                                                             *)
(***************************************************************************)
\* the calls of kind t among evs, in order
Select(evs, t) == SelectSeq(evs, LAMBDA ev : ev.t = t)

\* the status is in 200..299
Is2xx(statusCode) == statusCode \in 200..299

\* C1: the completion (.finally) of a superseded call, whose generation
\* differs from executeCounter, leaves isLoading and isFinished unchanged and
\* does not invoke onFinish; the completion of the most recently started call
\* sets isLoading = false and isFinished = true and invokes onFinish; and no
\* other step of a promise chain touches the flags or invokes onFinish.
C1_OnlyCurrentCompletionFinishes ==
    [][/\ (last'.kind = "finally" /\ last'.call # executeCounter) =>
              /\ isLoading' = isLoading
              /\ isFinished' = isFinished
              /\ Select(effects', "onFinish") = <<>>
       /\ (last'.kind = "finally" /\ last'.call = executeCounter) =>
              /\ isLoading' = FALSE
              /\ isFinished' = TRUE
              /\ options.onFinish => Select(effects', "onFinish") = <<Event("onFinish", Undef)>>
       /\ last'.kind \in {"then", "catch", "catch-thrown"} =>
              /\ isLoading' = isLoading
              /\ isFinished' = isFinished
              /\ Select(effects', "onFinish") = <<>>
      ]_vars

\* call 1 was superseded by call 2, call 2 completed first, call 1 has just
\* completed
C1_Witness ==
    /\ last.kind = "finally"
    /\ last.call = 1
    /\ executeCounter = 2
    /\ calls[2].pc = "done"
    /\ calls[2].nFinish = 1
    /\ calls[1].nFinish = 0
    /\ isFinished
    /\ ~isLoading

\* C2: once execute has been called, exactly one of isLoading and isFinished
\* is true.
C2_LoadingXorFinished ==
    executeCalls > 0 => (isLoading # isFinished)

\* C3: right after an execute call with no bound address and no address in
\* its config, error is ERR_INVALID_URL, isFinished is true, isLoading is
\* false, and the call has not invoked the transport.
C3_InvalidUrlOutcome ==
    (/\ last.kind = "execute"
     /\ url = Undef
     /\ last.executeUrl.kind # "string"
     /\ last.executeUrl.cfg.url = Undef
     /\ last.config.url = Undef)
    => (/\ error = ERR_INVALID_URL
        /\ isFinished
        /\ ~isLoading
        /\ ~last.invoked)

\* the address embedded in the config argument of the call, as C4 reads it:
\* the config object given as the first argument, or the config parameter
ConfigAddress(executeUrl, config) ==
    IF executeUrl.kind = "object" /\ executeUrl.cfg.url # Undef
    THEN executeUrl.cfg.url
    ELSE config.url

\* C4 as stated: the address is the first argument when it is a string,
\* otherwise the bound address, otherwise the address of the config object
\* given as first argument or of the config parameter; the call fails with
\* ERR_INVALID_URL only when none yields an address, and otherwise invokes
\* the transport.
C4_AddressFromEitherConfig ==
    last.kind = "execute" =>
        LET claimed == IF last.executeUrl.kind = "string" THEN last.executeUrl.str
                       ELSE IF url # Undef THEN url
                       ELSE ConfigAddress(last.executeUrl, last.config)
        IN /\ last.invoked <=> (claimed # Undef)
           /\ last.invoked => last.resolved = claimed
           /\ ~last.invoked => error = ERR_INVALID_URL

\* C4 as amended: the address is the first argument when it is a string,
\* otherwise the bound address, otherwise the url of the config parameter
\* (the second argument); a config object given as first argument is not
\* consulted. The call fails with ERR_INVALID_URL exactly when none yields an
\* address, and otherwise invokes the transport.
C4_AddressFromConfigParameter ==
    last.kind = "execute" =>
        LET amended == IF last.executeUrl.kind = "string" THEN last.executeUrl.str
                       ELSE IF url # Undef THEN url
                       ELSE last.config.url
        IN /\ last.invoked <=> (amended # Undef)
           /\ last.invoked => last.resolved = amended
           /\ ~last.invoked => error = ERR_INVALID_URL

\* an execute call on an instance without a bound address took its address
\* from the config parameter, the first argument being a config object
C4_Witness ==
    /\ last.kind = "execute"
    /\ url = Undef
    /\ last.executeUrl.kind = "object"
    /\ last.config.url = "/c"
    /\ last.invoked
    /\ last.resolved = "/c"

\* C5: the request handed to the transport carries the address resolved for
\* the call, and a field of the config of the execute call wins over the same
\* field of the construction-time config.
C5_DescriptorPrecedence ==
    (last.kind = "execute" /\ last.invoked) =>
        /\ last.desc.url = last.resolved
        /\ last.desc.method = IF last.config.method # Undef
                              THEN last.config.method
                              ELSE defaultConfig.method


\* C6: the thenable never settles while isFinished is false; when it settles
\* it resolves with the result object if error is unset at that moment and
\* rejects with the value of error if it is set.
C6_SettlesWhenFinished ==
    last.kind = "settle" =>
        /\ isFinished
        /\ waiters[last.waiter] =
               IF error = Undef
               THEN [st |-> "resolved", val |-> "result"]
               ELSE [st |-> "rejected", val |-> error]

\* C7: when a transport call rejects with e, for a current or a superseded
\* call alike, e is stored in error, one notification with the network-error
\* title is shown, onError (when supplied) is invoked exactly once with e,
\* and data and response are left unchanged.
C7_RejectionRecorded ==
    [][last'.kind = "catch" =>
          /\ error' = last'.e
          /\ Select(effects', "toast") = <<Event("toast", NetworkErrorTitle)>>
          /\ Select(effects', "onError") =
                 IF options.onError THEN <<Event("onError", last'.e)>> ELSE <<>>
          /\ data' = data
          /\ response' = response
      ]_vars

\* the transport call of a superseded call has just rejected, and onError
\* was invoked for it
C7_Witness ==
    /\ last.kind = "catch"
    /\ last.call # executeCounter
    /\ last.e \in Rejections
    /\ error = last.e
    /\ calls[last.call].nError = 1
    /\ calls[last.call].nSuccess = 0

\* C8: right after a response with status 200..299 and envelope
\* {code, msg, data: D} is handled, data is D and response is the raw
\* response, onSuccess (when supplied) has been invoked once with D, no
\* notification is shown and onError is not invoked.
C8_SuccessStored ==
    (last.kind = "then" /\ Is2xx(last.res.statusCode)) =>
        /\ data = last.res.data.data
        /\ response = last.res
        /\ Select(effects, "onSuccess") =
               IF options.onSuccess
               THEN <<Event("onSuccess", last.res.data.data)>>
               ELSE <<>>
        /\ Select(effects, "toast") = <<>>
        /\ Select(effects, "onError") = <<>>

\* a response with status 200 has just been handled for a call that
\* replaced the data of an earlier response, and onSuccess was invoked
C8_Witness ==
    /\ last.kind = "then"
    /\ last.res.statusCode = 200
    /\ last.call = 2
    /\ calls[1].statusCode = 299
    /\ data = "D1"
    /\ calls[2].nSuccess = 1

\* C9: when a response whose status is neither 2xx nor 401 is handled, with
\* envelope message M, one notification is shown whose title is M, or the
\* fixed fallback when M is empty, onError (when supplied) is invoked with
\* that same text, and data, response and error are not written.
C9_ApplicationError ==
    [][(/\ last'.kind = "then"
        /\ ~Is2xx(last'.res.statusCode)
        /\ last'.res.statusCode # 401) =>
          LET M == last'.res.data.msg
              text == IF M = "" THEN RequestErrorFallback ELSE M
          IN /\ Select(effects', "toast") = <<Event("toast", text)>>
             /\ Select(effects', "onError") =
                    IF options.onError THEN <<Event("onError", text)>> ELSE <<>>
             /\ Select(effects', "onSuccess") = <<>>
             /\ data' = data
             /\ response' = response
             /\ error' = error
      ]_vars

\* a response with status 500 and an empty message has just been handled:
\* the fallback was shown and passed to onError
C9_Witness ==
    /\ last.kind = "then"
    /\ last.res.statusCode = 500
    /\ last.res.data.msg = ""
    /\ effects = <<Event("toast", RequestErrorFallback),
                   Event("onError", RequestErrorFallback)>>

\* C10 as stated: after an execute call whose response has status 401 has
\* completed, data and error hold the values they had before the execute
\* call was made.
C10_CellsAsBeforeTheCall ==
    \A i \in Calls :
        (calls[i].pc = "done" /\ calls[i].statusCode = 401) =>
            /\ data = calls[i].preData
            /\ error = calls[i].preError

\* C10 as amended: handling a response with status 401 shows no
\* notification, invokes neither onSuccess nor onError and writes no cell:
\* data, error and response keep the values they had when the response
\* arrived (execute itself has cleared error, and reset data under
\* resetOnExecute, when the call started); the completion of that call
\* changes only isLoading and isFinished, and only if the call is still the
\* most recently started one.
C10_UnauthorizedIsNoOp ==
    [][/\ (last'.kind = "then" /\ last'.res.statusCode = 401) =>
              /\ effects' = <<>>
              /\ calls'[last'.call].pc = "handled"
              /\ UNCHANGED cells
       /\ (last'.kind = "finally" /\ calls[last'.call].statusCode = 401) =>
              /\ Select(effects', "toast") = <<>>
              /\ Select(effects', "onSuccess") = <<>>
              /\ Select(effects', "onError") = <<>>
              /\ UNCHANGED <<data, error, response, executeCounter>>
              /\ last'.call # executeCounter => UNCHANGED <<isLoading, isFinished>>
      ]_vars

\* a call answered with status 401 has completed while it was the most
\* recently started one, after execute had cleared the error of an earlier
\* rejection
C10_Witness ==
    /\ last.kind = "finally"
    /\ last.call = executeCounter
    /\ calls[last.call].statusCode = 401
    /\ calls[last.call].preError \in Rejections
    /\ error = Undef
    /\ isFinished


\* C11: with resetOnExecute = true and initialData = X, right after an
\* execute call that reaches the transport (before any result of that call
\* is handled) data is X, whatever an earlier call had stored; with
\* resetOnExecute false or absent, data is what it was before the call.
C11_ResetOnExecute ==
    (last.kind = "execute" /\ last.invoked) =>
        /\ calls[last.call].pc = "pending"
        /\ data = IF options.resetOnExecute
                  THEN options.initialData
                  ELSE calls[last.call].preData

\* an execute call has just reset to D0 the data an earlier response stored
C11_Witness ==
    /\ last.kind = "execute"
    /\ last.invoked
    /\ options.resetOnExecute
    /\ options.initialData = "D0"
    /\ calls[last.call].preData = "D1"
    /\ data = "D0"

\* C12: constructing with a bound address and immediate true invokes the
\* transport exactly once during construction; constructing without a bound
\* address, or with immediate not true, invokes it zero times.
C12_ImmediateFiresOnce ==
    last.kind = "construct" =>
        /\ executeCalls = executeCounter
        /\ last.invoked <=> (executeCounter = 1)
        /\ executeCounter = IF url # Undef /\ options.immediate THEN 1 ELSE 0

\* C13 as stated: after n execute calls of any kind executeCounter is n.
C13_CounterCountsEveryCall ==
    executeCounter = executeCalls

\* C13 as amended: executeCounter never decreases; an execute call that
\* reaches the transport increments it by exactly one, an execute call that
\* fails with ERR_INVALID_URL leaves it unchanged, and so does every other
\* step: its value is the number of execute calls that reached the transport.
C13_CounterCountsTransportCalls ==
    [][/\ executeCounter' >= executeCounter
       /\ executeCalls' = executeCalls
              + (IF last'.kind = "execute" THEN 1 ELSE 0)
       /\ executeCounter' = executeCounter
              + (IF last'.kind = "execute" /\ last'.invoked THEN 1 ELSE 0)
       /\ executeCounter' = Cardinality({i \in Calls : calls'[i].pc # "idle"})
      ]_vars

\* two execute calls were made, the second failed with ERR_INVALID_URL and
\* the counter stands at one
C13_Witness ==
    /\ last.kind = "execute"
    /\ ~last.invoked
    /\ error = ERR_INVALID_URL
    /\ executeCalls = 2
    /\ executeCounter = 1

\* the call names an address: a string argument, the bound address, or the
\* url of the config parameter
Resolvable(bUrl, executeUrl, config) ==
    \/ executeUrl.kind = "string"
    \/ bUrl # Undef
    \/ config.url # Undef

\* C14: whatever error the instance holds (ERR_INVALID_URL, a transport
\* rejection) and whatever responses came before, an execute call with a
\* resolvable address clears error, sets isLoading = true and isFinished =
\* false, and invokes the transport exactly once: it starts one new promise
\* chain and touches no other.
C14_ReusableAfterError ==
    [][(last'.kind = "execute" /\ Resolvable(url, last'.executeUrl, last'.config)) =>
          /\ error' = Undef
          /\ isLoading'
          /\ ~isFinished'
          /\ last'.invoked
          /\ executeCounter' = executeCounter + 1
          /\ calls[executeCounter'].pc = "idle"
          /\ calls'[executeCounter'].pc = "pending"
          /\ \A j \in Calls \ {executeCounter'} : calls'[j] = calls[j]
      ]_vars

\* an execute call has just started a request on an instance that held
\* ERR_INVALID_URL and was finished
C14_Witness ==
    /\ last.kind = "execute"
    /\ last.invoked
    /\ calls[last.call].preError = ERR_INVALID_URL
    /\ error = Undef
    /\ isLoading
    /\ ~isFinished


\* C15: for a call of request or uploadFile, the options sent have: the url
\* prefixed with the base URL exactly when it does not start with "http",
\* and unchanged otherwise; timeout 10000 whatever the caller set; header
\* "source-client" = "miniprogram" and every other caller header as the
\* caller set it; and no Authorization header the caller did not set (the
\* token is empty).
C15_InterceptorMapping ==
    (intercept.phase = "sent" /\ intercept.api \in {"request", "uploadFile"}) =>
        LET in == intercept.options
            out == intercept.sent
            http == Len(in.url) >= 4 /\ <<in.url[1], in.url[2], in.url[3], in.url[4]>>
                                            = <<"h", "t", "t", "p">>
        IN /\ http => out.url = in.url
           /\ ~http => out.url = BaseURL \o in.url
           /\ out.timeout = <<10000>>
           /\ DOMAIN out.header = DOMAIN in.header \cup {"source-client"}
           /\ out.header["source-client"] = "miniprogram"
           /\ \A n \in DOMAIN in.header \ {"source-client"} : out.header[n] = in.header[n]

\* an uploadFile call with a relative url, its own timeout and its own
\* Authorization and source-client headers has been sent
C15_Witness ==
    /\ intercept.phase = "sent"
    /\ intercept.api = "uploadFile"
    /\ intercept.options.url = <<"/", "a">>
    /\ intercept.options.timeout = <<5000>>
    /\ DOMAIN intercept.options.header = {"Authorization", "source-client"}
    /\ intercept.sent.url = BaseURL \o <<"/", "a">>
    /\ intercept.sent.header["Authorization"] = "caller-token"

\* a step of the promise chain of a call that a later call has superseded
SupersededStep(l, counter) ==
    l.kind \in {"then", "catch", "catch-thrown", "finally"} /\ l.call < counter

\* C16: every step of a superseded call leaves isLoading and isFinished as
\* they are; its .then on a 2xx response still stores the payload in data
\* and invokes onSuccess with it (so when the later call has completed
\* first, data ends as the older call's payload and onSuccess has run for
\* both); its .catch on a transport rejection still writes error and invokes
\* onError; and its later steps leave data as its .then left it.
C16_SupersededSideEffects ==
    [][SupersededStep(last', executeCounter) =>
          /\ isLoading' = isLoading
          /\ isFinished' = isFinished
          /\ (last'.kind = "then" /\ Is2xx(last'.res.statusCode)) =>
                 /\ data' = last'.res.data.data
                 /\ options.onSuccess =>
                        /\ Select(effects', "onSuccess")
                               = <<Event("onSuccess", last'.res.data.data)>>
                        /\ calls'[last'.call].nSuccess = calls[last'.call].nSuccess + 1
          /\ last'.kind = "catch" =>
                 /\ error' = last'.e
                 /\ options.onError =>
                        Select(effects', "onError") = <<Event("onError", last'.e)>>
          /\ last'.kind # "then" => data' = data
      ]_vars

\* call 2 completed first with status 299 and payload D2, call 1 then
\* completed with status 200 and payload D1: data is D1, onSuccess ran for
\* both, the flags are as call 2 left them
C16_Witness ==
    /\ last.kind = "finally"
    /\ last.call = 1
    /\ executeCounter = 2
    /\ calls[1].statusCode = 200
    /\ calls[2].statusCode = 299
    /\ calls[1].preData # "D2"
    /\ data = "D1"
    /\ response.statusCode = 200
    /\ calls[1].nSuccess = 1
    /\ calls[2].nSuccess = 1
    /\ calls[1].nFinish = 0
    /\ isFinished
    /\ ~isLoading

\* C17: when every execute call reached the transport and no callback threw,
\* and the most recently started call has received a 2xx response and has
\* just completed (isFinished has become true), error is unset.
C17_ErrorUnsetWhenLatestSucceeds ==
    (/\ last.kind = "finally"
     /\ last.call = executeCounter
     /\ executeCalls = executeCounter
     /\ \A i \in Calls : ~calls[i].threw
     /\ Is2xx(calls[last.call].statusCode))
    => error = Undef

\* C18: isLoading is true exactly when the most recently started transport
\* call has not run its .finally handler; an execute call that fails with
\* ERR_INVALID_URL leaves isLoading and executeCounter as they are; and the
\* .finally handler of the most recently started call sets isLoading false.
C18_LoadingIffLatestIncomplete ==
    /\ (isLoading <=> (executeCounter > 0 /\ calls[executeCounter].pc # "done"))
    /\ [][/\ isLoading' <=> (executeCounter' > 0 /\ calls'[executeCounter'].pc # "done")
          /\ (last'.kind = "execute" /\ ~last'.invoked) =>
                 /\ error' = ERR_INVALID_URL
                 /\ isLoading' = isLoading
                 /\ executeCounter' = executeCounter
                 /\ calls' = calls
          /\ (last'.kind = "finally" /\ last'.call = executeCounter) => ~isLoading'
         ]_vars

\* an execute call failed with ERR_INVALID_URL while call 1 was in flight,
\* and call 1 has now completed
C18_Witness ==
    /\ last.kind = "finally"
    /\ last.call = executeCounter
    /\ executeCounter = 1
    /\ executeCalls = 2
    /\ error = ERR_INVALID_URL
    /\ isFinished
    /\ ~isLoading

\* C19: when a call has reached the transport, eventually and from then on
\* isLoading is false, isFinished is true and the most recently started call
\* has completed, with onFinish invoked once for it (when supplied); onFinish
\* is invoked at most once per call; and once the most recently started call
\* has completed, onFinish is not invoked again unless a new call starts.
C19_EventuallyFinished ==
    /\ <>[](executeCounter > 0 =>
               /\ ~isLoading
               /\ isFinished
               /\ calls[executeCounter].pc = "done"
               /\ calls[executeCounter].nFinish = IF options.onFinish THEN 1 ELSE 0)
    /\ [](\A i \in Calls : calls[i].nFinish <= 1)
    /\ [][(executeCounter > 0 /\ calls[executeCounter].pc = "done"
              /\ executeCounter' = executeCounter) =>
             \A i \in Calls : calls'[i].nFinish = calls[i].nFinish]_vars

\* both calls have completed, the superseded one without onFinish, the most
\* recently started one last and with onFinish
C19_Witness ==
    /\ last.kind = "finally"
    /\ last.call = 2
    /\ executeCounter = 2
    /\ calls[1].pc = "done"
    /\ calls[2].pc = "done"
    /\ calls[1].nFinish = 0
    /\ calls[2].nFinish = 1
    /\ Select(effects, "onFinish") = <<Event("onFinish", Undef)>>
    /\ isFinished
    /\ ~isLoading

\* C20: for each call, onSuccess and onError are invoked at most once in
\* total; the .catch handler, which writes error and shows the network-error
\* notification, runs only when the transport rejected; and error holds
\* nothing but ERR_INVALID_URL or a value the transport rejected with.
C20_OneCallbackPerCall ==
    /\ \A i \in Calls : calls[i].nSuccess + calls[i].nError <= 1
    /\ (\E k \in DOMAIN effects : effects[k] = Event("toast", NetworkErrorTitle))
           => last.kind = "catch"
    /\ error \in {Undef, ERR_INVALID_URL} \cup Rejections

====
